---- MODULE Spec2Model ----
(***************************************************************************)
(* Transaction monitor of devlyn37/relay (src/transaction_monitor/mod.rs). *)
(* The registry `txs` is a Vec behind a futures Mutex; it is shared by the *)
(* submission path (send_monitored_transaction), the status query          *)
(* (get_transaction_status) and the single background task `monitor`.      *)
(* The provider (fee estimate, fill, send, block stream, block fetch) is   *)
(* the environment: each call either succeeds with a value drawn from a    *)
(* small set or fails.                                                     *)
(***************************************************************************)
EXTENDS Integers, Sequences, FiniteSets, TLC

\* ---------------------------------------------------------------- bounds
MaxCallers == 2
MaxBlocks == 3
MaxHash == 3
MaxBlockTxs == 2
MaxFrequency == 3

\* Option::None of the two optional fee fields and of the block target.
None == 0 - 1

Callers == 1..MaxCallers
\* Uuid::new_v4() draws from a 128-bit space and is taken never to repeat a
\* value: ids are opaque, so the model hands out the least unused one.
IdSpace == 1..MaxCallers

\* A generator that answers the nil Uuid every time.
new_v4_nil(used) == {1}

new_v4(used) == {id \in IdSpace \ used : \A other \in IdSpace \ used : id <= other}

\* (max_fee_per_gas, max_priority_fee_per_gas) pairs the provider's
\* estimate_eip1559_fees can answer with.
Estimates == {<<3, 1>>, <<40, 15>>}

\* Requests a caller can pass to send_monitored_transaction: only the tip
\* present (as the HTTP handler builds it), or both fees present.
Requests ==
  { [maxFee |-> None, prioFee |-> 1, payload |-> 1, target |-> None],
    [maxFee |-> 20, prioFee |-> 10, payload |-> 2, target |-> 7] }

VARIABLES
  txs,          \* the registry: Vec<(TxHash, request, Option<BlockId>, Uuid)>
  lock,         \* holder of the registry mutex across await points
  block_frequency,
  mpc,          \* position of the monitor task
  mfail,        \* why the monitor task stopped
  block_count,  \* local counter of the monitor task
  blk,          \* hashes of the transactions of the fetched block
  est,          \* the per-block fee estimate
  remaining,    \* iterations of `for _ in 0..len` still to run
  cur,          \* the popped entry whose rebroadcast is awaited
  cpc,          \* position of each submission call
  creq,         \* the request a submission call is working on
  chash,        \* the hash send_transaction returned to it
  cid,          \* the Uuid it generated
  nextHash,     \* network: next transaction hash
  nextNonce,    \* nonce manager: next nonce
  usedIds,      \* Uuids drawn so far
  tickStart,    \* history: registry when the tick locked it
  popLog,       \* history: ids popped in the current tick, in order
  sendLog,      \* history: ids send_transaction was called for in the tick
  bumpLog,      \* history: ids whose fees were bumped in the tick
  included,     \* history: ids whose hash was found in a processed block
  rejected,     \* history: ids whose rebroadcast got "nonce too low"
  preTick,      \* history: registry when the current block was received
  processed,    \* history: number of blocks whose entries were processed
  fresh,        \* history: no tick has locked the registry since the call returned
  seenComplete, \* history: returned ids for which status answered Complete
  mined         \* chain: ids of the entries whose transaction has been mined

monVars == <<block_frequency, mpc, mfail, block_count, blk, est, remaining, cur>>
callVars == <<cpc, creq, chash, cid>>
netVars == <<nextHash, nextNonce, usedIds>>
tickHist == <<tickStart, popLog, sendLog, bumpLog>>
hist == <<included, rejected, preTick, processed, fresh, seenComplete, mined>>
vars == <<txs, lock, monVars, callVars, netVars, tickHist, hist>>

\* ------------------------------------------------------- pure functions
\* max with its comparison turned around.
MaxAsMin(a, b) == IF a <= b THEN a ELSE b

Max(a, b) == IF a >= b THEN a ELSE b

\* increase_by_minimum without the rounding unit.
increase_by_minimum_no_round(value) == value + ((value * 10) \div 100)

\* increase_by_minimum dividing before it multiplies.
increase_by_minimum_div_first(value) == value + ((value \div 100) * 10) + 1

increase_by_minimum(value) == value + ((value * 10) \div 100) + 1

\* A bump that forgets to add the tip to the new max fee.
bump_transaction_base_only(tx, estimate_max_fee, estimate_max_priority_fee) ==
  LET prev_max_priority_fee ==
        IF tx.prioFee = None THEN estimate_max_priority_fee ELSE tx.prioFee
      prev_max_fee == IF tx.maxFee = None THEN estimate_max_fee ELSE tx.maxFee
      new_max_priority_fee ==
        Max(estimate_max_priority_fee, increase_by_minimum(prev_max_priority_fee))
      estimate_base_fee == estimate_max_fee - estimate_max_priority_fee
      prev_base_fee == prev_max_fee - prev_max_priority_fee
      new_base_fee == Max(estimate_base_fee, increase_by_minimum(prev_base_fee))
  IN [tx EXCEPT !.maxFee = new_base_fee, !.prioFee = new_max_priority_fee]

\* The new (max_fee_per_gas, max_priority_fee_per_gas) of a request.
bump_transaction(tx, estimate_max_fee, estimate_max_priority_fee) ==
  LET prev_max_priority_fee ==
        IF tx.prioFee = None THEN estimate_max_priority_fee ELSE tx.prioFee
      prev_max_fee == IF tx.maxFee = None THEN estimate_max_fee ELSE tx.maxFee
      new_max_priority_fee ==
        Max(estimate_max_priority_fee, increase_by_minimum(prev_max_priority_fee))
      estimate_base_fee == estimate_max_fee - estimate_max_priority_fee
      prev_base_fee == prev_max_fee - prev_max_priority_fee
      new_base_fee == Max(estimate_base_fee, increase_by_minimum(prev_base_fee))
      new_max_fee == new_base_fee + new_max_priority_fee
  IN [tx EXCEPT !.maxFee = new_max_fee, !.prioFee = new_max_priority_fee]

Ids(registry) == {registry[k].id : k \in DOMAIN registry}

get_transaction_status(registry, id) ==
  IF \E k \in DOMAIN registry : registry[k].id = id THEN "Pending" ELSE "Complete"

Pop(registry) == SubSeq(registry, 1, Len(registry) - 1)

Last(registry) == registry[Len(registry)]

NoReq == [maxFee |-> None, prioFee |-> None, payload |-> 0, target |-> None,
          nonce |-> None]

Entry(h, req, id) ==
  [hash |-> h, maxFee |-> req.maxFee, prioFee |-> req.prioFee,
   payload |-> req.payload, nonce |-> req.nonce, target |-> req.target, id |-> id]

NoEntry == [hash |-> 0, maxFee |-> None, prioFee |-> None, payload |-> 0,
            nonce |-> None, target |-> None, id |-> 0]

\* ----------------------------------------------------------------- Init
Init ==
  /\ txs = <<>>
  /\ lock = "free"
  /\ block_frequency \in 1..MaxFrequency
  /\ mpc = "start"
  /\ mfail = "none"
  /\ block_count = 0
  /\ blk = {}
  /\ est = <<0, 0>>
  /\ remaining = 0
  /\ cur = NoEntry
  /\ cpc = [c \in Callers |-> "idle"]
  /\ creq = [c \in Callers |-> NoReq]
  /\ chash = [c \in Callers |-> 0]
  /\ cid = [c \in Callers |-> 0]
  /\ nextHash = 1
  /\ nextNonce = 1
  /\ usedIds = {}
  /\ tickStart = <<>>
  /\ popLog = <<>>
  /\ sendLog = <<>>
  /\ bumpLog = <<>>
  /\ included = {}
  /\ rejected = {}
  /\ preTick = <<>>
  /\ processed = 0
  /\ fresh = [c \in Callers |-> FALSE]
  /\ seenComplete = {}
  /\ mined = {}

\* ------------------------------------------ send_monitored_transaction
\* Entry of the call: clone the request and test the two fee fields.
\* Calls are interchangeable, so they are started in the order of Callers.
Submit(c, r) ==
  /\ cpc[c] = "idle"
  /\ \A d \in Callers : d < c => cpc[d] # "idle"
  /\ creq' = [creq EXCEPT ![c] = [maxFee |-> r.maxFee, prioFee |-> r.prioFee,
                                  payload |-> r.payload, target |-> r.target,
                                  nonce |-> None]]
  /\ cpc' = [cpc EXCEPT ![c] =
               IF r.maxFee = None \/ r.prioFee = None THEN "estimate" ELSE "fill"]
  /\ UNCHANGED <<txs, lock, monVars, chash, cid, netVars, tickHist, hist>>

\* estimate_eip1559_fees answered: both fee fields are overwritten.
SubmitEstimateOk(c, e) ==
  /\ cpc[c] = "estimate"
  /\ creq' = [creq EXCEPT ![c].maxFee = e[1], ![c].prioFee = e[2]]
  /\ cpc' = [cpc EXCEPT ![c] = "fill"]
  /\ UNCHANGED <<txs, lock, monVars, chash, cid, netVars, tickHist, hist>>

\* fill_transaction answered: the nonce manager hands out the next nonce.
SubmitFillOk(c) ==
  /\ cpc[c] = "fill"
  /\ creq' = [creq EXCEPT ![c].nonce = nextNonce]
  /\ nextNonce' = nextNonce + 1
  /\ cpc' = [cpc EXCEPT ![c] = "send"]
  /\ UNCHANGED <<txs, lock, monVars, chash, cid, nextHash, usedIds, tickHist, hist>>

\* A submission that takes the registry mutex before it broadcasts.
SubmitSendOkLocked(c, id) ==
  /\ cpc[c] = "send"
  /\ lock = "free"
  /\ lock' = "submit"
  /\ nextHash <= MaxHash
  /\ id \in new_v4(usedIds)
  /\ chash' = [chash EXCEPT ![c] = nextHash]
  /\ nextHash' = nextHash + 1
  /\ cid' = [cid EXCEPT ![c] = id]
  /\ usedIds' = usedIds \cup {id}
  /\ cpc' = [cpc EXCEPT ![c] = "insert"]
  /\ UNCHANGED <<txs, monVars, creq, nextNonce, tickHist, hist>>

\* send_transaction answered with a hash; the Uuid is drawn before the
\* call waits for the registry mutex.
SubmitSendOk(c, id) ==
  /\ cpc[c] = "send"
  /\ nextHash <= MaxHash
  /\ id \in new_v4(usedIds)
  /\ chash' = [chash EXCEPT ![c] = nextHash]
  /\ nextHash' = nextHash + 1
  /\ cid' = [cid EXCEPT ![c] = id]
  /\ usedIds' = usedIds \cup {id}
  /\ cpc' = [cpc EXCEPT ![c] = "insert"]
  /\ UNCHANGED <<txs, lock, monVars, creq, nextNonce, tickHist, hist>>

\* A submission that registers its entry before the provider call it then
\* fails on.
SubmitFailInserts(c) ==
  /\ cpc[c] \in {"estimate", "fill", "send"}
  /\ lock = "free"
  /\ txs' = Append(txs, Entry(0, creq[c], 0))
  /\ cpc' = [cpc EXCEPT ![c] = "err"]
  /\ UNCHANGED <<lock, monVars, creq, chash, cid, netVars, tickHist, hist>>

\* The provider call the submission is waiting for fails: `?` returns Err.
SubmitFail(c) ==
  /\ cpc[c] \in {"estimate", "fill", "send"}
  /\ cpc' = [cpc EXCEPT ![c] = "err"]
  /\ UNCHANGED <<txs, lock, monVars, creq, chash, cid, netVars, tickHist, hist>>

\* A submission that returns Ok(id) without pushing the entry.
SubmitInsertNoPush(c) ==
  /\ cpc[c] = "insert"
  /\ lock = "free"
  /\ cpc' = [cpc EXCEPT ![c] = "ok"]
  /\ fresh' = [fresh EXCEPT ![c] = TRUE]
  /\ UNCHANGED <<txs, lock, monVars, creq, chash, cid, netVars, tickHist,
                 included, rejected, preTick, processed, seenComplete, mined>>

\* The mutex is granted: push the entry and return Ok(id).
SubmitInsert(c) ==
  /\ cpc[c] = "insert"
  /\ lock = "free"
  /\ txs' = Append(txs, Entry(chash[c], creq[c], cid[c]))
  /\ cpc' = [cpc EXCEPT ![c] = "ok"]
  /\ fresh' = [fresh EXCEPT ![c] = TRUE]
  /\ UNCHANGED <<lock, monVars, creq, chash, cid, netVars, tickHist,
                 included, rejected, preTick, processed, seenComplete, mined>>

\* ---------------------------------------------- get_transaction_status
\* The call locks the registry, searches the id and returns.
GetStatus(id) ==
  /\ lock = "free"
  /\ id \in IdSpace
  /\ seenComplete' =
       IF get_transaction_status(txs, id) = "Complete"
          /\ \E c \in Callers : cpc[c] = "ok" /\ cid[c] = id
       THEN seenComplete \cup {id} ELSE seenComplete
  /\ UNCHANGED <<txs, lock, monVars, callVars, netVars, tickHist,
                 included, rejected, preTick, processed, fresh, mined>>

\* -------------------------------------------------------------- monitor
\* watch_blocks answers with the block stream.
WatchBlocks ==
  /\ mpc = "start"
  /\ mpc' = "next"
  /\ UNCHANGED <<txs, lock, block_frequency, mfail, block_count, blk, est,
                 remaining, cur, callVars, netVars, tickHist, hist>>

\* watch_blocks fails: "Block streaming failure".
WatchBlocksFail ==
  /\ mpc = "start"
  /\ mpc' = "failed"
  /\ mfail' = "stream"
  /\ UNCHANGED <<txs, lock, block_frequency, block_count, blk, est,
                 remaining, cur, callVars, netVars, tickHist, hist>>

\* watcher.next() yields a block hash; the counter is incremented.
NextBlock ==
  /\ mpc = "next"
  /\ block_count < MaxBlocks
  /\ block_count' = block_count + 1
  /\ mpc' = "fetch"
  /\ preTick' = txs
  /\ UNCHANGED <<txs, lock, block_frequency, mfail, blk, est, remaining, cur,
                 callVars, netVars, tickHist,
                 included, rejected, processed, fresh, seenComplete, mined>>

\* watcher.next() yields None: the while loop ends and monitor returns Ok.
StreamEnd ==
  /\ mpc = "next"
  /\ mpc' = "stopped"
  /\ UNCHANGED <<txs, lock, block_frequency, mfail, block_count, blk, est,
                 remaining, cur, callVars, netVars, tickHist, hist>>

\* Blocks the chain can produce: transactions broadcast so far.
Blocks == {b \in SUBSET (1..(nextHash - 1)) : Cardinality(b) <= MaxBlockTxs}

\* get_block_with_txs answers with the block.
FetchOk(b) ==
  /\ mpc = "fetch"
  /\ blk' = b
  /\ mpc' = "estimate"
  /\ UNCHANGED <<txs, lock, block_frequency, mfail, block_count, est,
                 remaining, cur, callVars, netVars, tickHist, hist>>

\* A fetch failure that is logged and skipped instead of returned.
FetchFailSwallowed ==
  /\ mpc = "fetch"
  /\ mpc' = "next"
  /\ mfail' = "fetch"
  /\ UNCHANGED <<txs, lock, block_frequency, block_count, blk, est,
                 remaining, cur, callVars, netVars, tickHist, hist>>

\* get_block_with_txs fails (`?`) or answers None (`unwrap` panics).
FetchFail ==
  /\ mpc = "fetch"
  /\ mpc' = "failed"
  /\ mfail' = "fetch"
  /\ UNCHANGED <<txs, lock, block_frequency, block_count, blk, est,
                 remaining, cur, callVars, netVars, tickHist, hist>>

\* The per-block estimate_eip1559_fees answers.
EstimateOk(e) ==
  /\ mpc = "estimate"
  /\ est' = e
  /\ mpc' = "lock"
  /\ UNCHANGED <<txs, lock, block_frequency, mfail, block_count, blk,
                 remaining, cur, callVars, netVars, tickHist, hist>>

\* The per-block estimate fails: "error estimating gas prices".
EstimateFail ==
  /\ mpc = "estimate"
  /\ mpc' = "failed"
  /\ mfail' = "estimate"
  /\ UNCHANGED <<txs, lock, block_frequency, block_count, blk, est,
                 remaining, cur, callVars, netVars, tickHist, hist>>

\* A tick that drops the guard right after reading the length.
AcquireLockReleased ==
  /\ mpc = "lock"
  /\ lock = "free"
  /\ remaining' = Len(txs)
  /\ mpc' = "loop"
  /\ tickStart' = txs
  /\ popLog' = <<>>
  /\ sendLog' = <<>>
  /\ bumpLog' = <<>>
  /\ processed' = processed + 1
  /\ fresh' = [c \in Callers |-> FALSE]
  /\ preTick' = <<>>
  /\ UNCHANGED <<txs, lock, block_frequency, mfail, block_count, blk, est, cur,
                 callVars, netVars, included, rejected, seenComplete, mined>>

\* self.txs.lock().await is granted; len = txs.len().
AcquireLock ==
  /\ mpc = "lock"
  /\ lock = "free"
  /\ lock' = "monitor"
  /\ remaining' = Len(txs)
  /\ mpc' = "loop"
  /\ tickStart' = txs
  /\ popLog' = <<>>
  /\ sendLog' = <<>>
  /\ bumpLog' = <<>>
  /\ processed' = processed + 1
  /\ fresh' = [c \in Callers |-> FALSE]
  /\ preTick' = <<>>
  /\ UNCHANGED <<txs, block_frequency, mfail, block_count, blk, est, cur,
                 callVars, netVars, included, rejected, seenComplete, mined>>

tx_has_been_included(e) == e.hash \in blk

\* One iteration: pop; the hash is in the block, the entry is not pushed back.
IterIncluded ==
  /\ mpc = "loop"
  /\ remaining > 0
  /\ tx_has_been_included(Last(txs))
  /\ txs' = Pop(txs)
  /\ included' = included \cup {Last(txs).id}
  /\ popLog' = Append(popLog, Last(txs).id)
  /\ remaining' = remaining - 1
  /\ UNCHANGED <<lock, block_frequency, mpc, mfail, block_count, blk, est, cur,
                 callVars, netVars, tickStart, sendLog, bumpLog,
                 rejected, preTick, processed, fresh, seenComplete, mined>>

\* An iteration that bumps the fees before it tests whether the tick is due.
IterNotDueBumped ==
  /\ mpc = "loop"
  /\ remaining > 0
  /\ ~tx_has_been_included(Last(txs))
  /\ block_count % block_frequency # 0
  /\ txs' = Append(Pop(txs), bump_transaction(Last(txs), est[1], est[2]))
  /\ popLog' = Append(popLog, Last(txs).id)
  /\ remaining' = remaining - 1
  /\ UNCHANGED <<lock, block_frequency, mpc, mfail, block_count, blk, est, cur,
                 callVars, netVars, tickStart, sendLog, bumpLog, hist>>

\* One iteration: pop; not included and not due, the entry is pushed back.
IterNotDue ==
  /\ mpc = "loop"
  /\ remaining > 0
  /\ ~tx_has_been_included(Last(txs))
  /\ block_count % block_frequency # 0
  /\ txs' = Append(Pop(txs), Last(txs))
  /\ popLog' = Append(popLog, Last(txs).id)
  /\ remaining' = remaining - 1
  /\ UNCHANGED <<lock, block_frequency, mpc, mfail, block_count, blk, est, cur,
                 callVars, netVars, tickStart, sendLog, bumpLog, hist>>

\* An iteration that drops the guard while it awaits send_transaction.
IterRebroadcastUnlocked ==
  /\ mpc = "loop"
  /\ remaining > 0
  /\ ~tx_has_been_included(Last(txs))
  /\ block_count % block_frequency = 0
  /\ txs' = Pop(txs)
  /\ cur' = bump_transaction(Last(txs), est[1], est[2])
  /\ mpc' = "sending"
  /\ lock' = "free"
  /\ popLog' = Append(popLog, Last(txs).id)
  /\ bumpLog' = Append(bumpLog, Last(txs).id)
  /\ sendLog' = Append(sendLog, Last(txs).id)
  /\ UNCHANGED <<block_frequency, mfail, block_count, blk, est, remaining,
                 callVars, netVars, tickStart, hist>>

\* One iteration: pop; not included and due: rebroadcast bumps the fees and
\* calls send_transaction, which the task then awaits.
IterRebroadcast ==
  /\ mpc = "loop"
  /\ remaining > 0
  /\ ~tx_has_been_included(Last(txs))
  /\ block_count % block_frequency = 0
  /\ txs' = Pop(txs)
  /\ cur' = bump_transaction(Last(txs), est[1], est[2])
  /\ mpc' = "sending"
  /\ popLog' = Append(popLog, Last(txs).id)
  /\ bumpLog' = Append(bumpLog, Last(txs).id)
  /\ sendLog' = Append(sendLog, Last(txs).id)
  /\ UNCHANGED <<lock, block_frequency, mfail, block_count, blk, est, remaining,
                 callVars, netVars, tickStart, hist>>

\* A rebroadcast that had the request filled again: it carries a new nonce.
RebroadcastOkRefilled ==
  /\ mpc = "sending"
  /\ nextHash <= MaxHash
  /\ txs' = Append(txs, [cur EXCEPT !.hash = nextHash, !.nonce = nextNonce])
  /\ nextHash' = nextHash + 1
  /\ cur' = NoEntry
  /\ remaining' = remaining - 1
  /\ mpc' = "loop"
  /\ UNCHANGED <<lock, block_frequency, mfail, block_count, blk, est,
                 callVars, nextNonce, usedIds, tickHist, hist>>

\* send_transaction answers Ok(new hash): the entry is pushed back with it.
RebroadcastOk ==
  /\ mpc = "sending"
  /\ nextHash <= MaxHash
  /\ txs' = Append(txs, [cur EXCEPT !.hash = nextHash])
  /\ nextHash' = nextHash + 1
  /\ cur' = NoEntry
  /\ remaining' = remaining - 1
  /\ mpc' = "loop"
  /\ UNCHANGED <<lock, block_frequency, mfail, block_count, blk, est,
                 callVars, nextNonce, usedIds, tickHist, hist>>

\* send_transaction fails with "nonce too low": Ok(None), nothing is pushed.
RebroadcastRejected ==
  /\ mpc = "sending"
  /\ rejected' = rejected \cup {cur.id}
  /\ cur' = NoEntry
  /\ remaining' = remaining - 1
  /\ mpc' = "loop"
  /\ UNCHANGED <<txs, lock, block_frequency, mfail, block_count, blk, est,
                 callVars, netVars, tickHist,
                 included, preTick, processed, fresh, seenComplete, mined>>

\* A failing rebroadcast whose guard is never dropped.
RebroadcastFailHoldsGuard ==
  /\ mpc = "sending"
  /\ cur' = NoEntry
  /\ mpc' = "failed"
  /\ mfail' = "send"
  /\ UNCHANGED <<txs, lock, block_frequency, block_count, blk, est, remaining,
                 callVars, netVars, tickHist, hist>>

\* send_transaction fails with another error: `?` returns from monitor, the
\* guard and the popped entry are dropped.
RebroadcastFail ==
  /\ mpc = "sending"
  /\ cur' = NoEntry
  /\ lock' = "free"
  /\ mpc' = "failed"
  /\ mfail' = "send"
  /\ UNCHANGED <<txs, block_frequency, block_count, blk, est, remaining,
                 callVars, netVars, tickHist, hist>>

\* The for loop is over: the guard, the block and the estimate are dropped
\* at the end of the while body.
EndTick ==
  /\ mpc = "loop"
  /\ remaining = 0
  /\ lock' = "free"
  /\ mpc' = "next"
  /\ blk' = {}
  /\ est' = <<0, 0>>
  /\ tickStart' = <<>>
  /\ popLog' = <<>>
  /\ sendLog' = <<>>
  /\ bumpLog' = <<>>
  /\ UNCHANGED <<txs, block_frequency, mfail, block_count, remaining,
                 cur, callVars, netVars, hist>>

\* ------------------------------------------------------- specification
Next ==
  \/ \E c \in Callers, r \in Requests : Submit(c, r)
  \/ \E c \in Callers, e \in Estimates : SubmitEstimateOk(c, e)
  \/ \E c \in Callers : SubmitFillOk(c)
  \/ \E c \in Callers, id \in IdSpace : SubmitSendOk(c, id)
  \/ \E c \in Callers : SubmitFail(c)
  \/ \E c \in Callers : SubmitInsert(c)
  \/ \E id \in IdSpace : GetStatus(id)
  \/ WatchBlocks
  \/ WatchBlocksFail
  \/ NextBlock
  \/ StreamEnd
  \/ \E b \in Blocks : FetchOk(b)
  \/ FetchFail
  \/ \E e \in Estimates : EstimateOk(e)
  \/ EstimateFail
  \/ AcquireLock
  \/ IterIncluded
  \/ IterNotDue
  \/ IterRebroadcast
  \/ RebroadcastOk
  \/ RebroadcastRejected
  \/ RebroadcastFail
  \/ EndTick

Spec == Init /\ [][Next]_vars

TypeOK ==
  /\ lock \in {"free", "monitor"}
  /\ mpc \in {"start", "next", "fetch", "estimate", "lock", "loop", "sending",
              "stopped", "failed"}
  /\ remaining \in 0..MaxCallers
  /\ block_count \in 0..MaxBlocks

\* ------------------------------------------------------------ properties
Count(log, id) == Cardinality({k \in DOMAIN log : log[k] = id})

Range(log) == {log[k] : k \in DOMAIN log}

IsPrefix(s, t) == Len(s) <= Len(t) /\ \A k \in DOMAIN s : s[k] = t[k]

\* Every iteration of the tick's for loop has run; the guard is still held.
TickDone == mpc = "loop" /\ remaining = 0

Due == block_count % block_frequency = 0

\* C1: when a tick's entry processing is over, no entry that was in the
\* registry at the start of the tick and whose hash is in the tick's block is
\* still in the registry.
C1_IncludedEntryRemoved ==
  TickDone =>
    \A k \in DOMAIN tickStart :
      tickStart[k].hash \in blk =>
        get_transaction_status(txs, tickStart[k].id) = "Complete"

\* C2: when a due tick's entry processing is over, every entry of the start
\* of the tick whose hash is not in the block has had send_transaction
\* called for it exactly once and its fees bumped exactly once in the tick.
C2_OneRebroadcastPerEntry ==
  (TickDone /\ Due) =>
    \A k \in DOMAIN tickStart :
      tickStart[k].hash \notin blk =>
        /\ Count(sendLog, tickStart[k].id) = 1
        /\ Count(bumpLog, tickStart[k].id) = 1

\* C3: an entry whose submission returned is in the registry (or popped and
\* awaiting its rebroadcast) unless its hash was found in a processed block
\* or its rebroadcast was answered "nonce too low".
C3_LeavesOnlyWhenIncludedOrRejected ==
  \A c \in Callers :
    cpc[c] = "ok" =>
      \/ cid[c] \in Ids(txs)
      \/ cur.id = cid[c]
      \/ cid[c] \in included
      \/ cid[c] \in rejected

\* C4: once the block fetch or the per-block estimate has failed, the monitor
\* has stopped without the guard, the failing block and all later ones are
\* unprocessed, and the registry of before the failing tick is still there,
\* entry for entry (submissions may only have appended to it).
C4_EarlyFailureKeepsRegistry ==
  mfail \in {"fetch", "estimate"} =>
    /\ mpc = "failed"
    /\ lock = "free"
    /\ processed = block_count - 1
    /\ IsPrefix(preTick, txs)
    /\ \A k \in DOMAIN preTick : get_transaction_status(txs, preTick[k].id) = "Pending"

C4_Witness ==
  /\ mfail = "fetch"
  /\ Len(preTick) >= 1
  /\ Len(txs) > Len(preTick)

\* C5: an entry whose rebroadcast was answered "nonce too low" is not in the
\* registry, and a tick in which that happened has evaluated every entry the
\* registry held at its start when its entry processing is over.
C5_RejectedDroppedRestEvaluated ==
  /\ \A id \in rejected : get_transaction_status(txs, id) = "Complete"
  /\ (TickDone /\ Range(popLog) \cap rejected # {}) =>
       Ids(tickStart) \subseteq Range(popLog)

\* The "nonce too low" answer itself raises nothing: the monitor stays in
\* its loop with the guard, and no submission call changes.
RejectionIsNotAnError ==
  [][rejected' # rejected =>
       /\ mpc' = "loop"
       /\ mfail' = mfail
       /\ lock' = "monitor"
       /\ callVars' = callVars
       /\ remaining' = remaining - 1]_vars

\* C6: an id returned by submit for which status has answered Complete gets
\* Complete from status in every later state.
C6_CompleteStaysComplete ==
  \A id \in seenComplete : get_transaction_status(txs, id) = "Complete"

C6_Witness ==
  /\ seenComplete # {}
  /\ Len(txs) > 0
  /\ processed >= 2

\* C7: when submit has returned Ok(id) and no tick has locked the registry
\* since, the registry holds an entry with that id and the broadcast hash,
\* and status answers Pending.
C7_SubmitThenStatusPending ==
  \A c \in Callers :
    (cpc[c] = "ok" /\ fresh[c]) =>
      /\ get_transaction_status(txs, cid[c]) = "Pending"
      /\ \E k \in DOMAIN txs : txs[k].id = cid[c] /\ txs[k].hash = chash[c]

C7_Witness ==
  \E c \in Callers : cpc[c] = "ok" /\ fresh[c] /\ mpc = "lock" /\ processed >= 1

\* C8: two submissions that returned Ok have distinct ids, both are in the
\* registry as long as no block has been processed, and no two registry
\* entries ever share an id.
C8_DistinctTrackingIds ==
  /\ \A c, d \in Callers :
       (c # d /\ cpc[c] = "ok" /\ cpc[d] = "ok") =>
         /\ cid[c] # cid[d]
         /\ processed = 0 =>
              /\ get_transaction_status(txs, cid[c]) = "Pending"
              /\ get_transaction_status(txs, cid[d]) = "Pending"
  /\ \A c, d \in Callers :
       (c # d /\ cpc[c] \in {"insert", "ok"} /\ cpc[d] \in {"insert", "ok"}) =>
         cid[c] # cid[d]
  /\ \A j, k \in DOMAIN txs : j # k => txs[j].id # txs[k].id

C8_Witness ==
  /\ \A c \in Callers : cpc[c] = "ok"
  /\ processed = 0
  /\ mpc = "lock"
  /\ Len(txs) = MaxCallers

\* C9: a submission that ends in an error leaves the registry, the mutex, the
\* monitor and every other submission as they were, and every registry entry
\* belongs to a submission that returned Ok.
C9_FailedSubmitStep ==
  \A c \in Callers :
    (cpc[c] # "err" /\ cpc'[c] = "err") =>
      /\ txs' = txs
      /\ lock' = lock
      /\ monVars' = monVars
      /\ \A d \in Callers \ {c} :
           cpc'[d] = cpc[d] /\ creq'[d] = creq[d] /\ chash'[d] = chash[d]
           /\ cid'[d] = cid[d]

C9_EntriesOfReturnedSubmits ==
  \A k \in DOMAIN txs : \E c \in Callers : cpc[c] = "ok" /\ cid[c] = txs[k].id

C9_FailedSubmitLeavesRegistry ==
  [][C9_FailedSubmitStep]_vars /\ []C9_EntriesOfReturnedSubmits

C9_Witness ==
  /\ \E c \in Callers : cpc[c] = "err"
  /\ \E c \in Callers : cpc[c] = "ok" /\ cur.id = cid[c]
  /\ mpc = "sending"

\* ------------------------------------------- fee escalation in isolation
MaxFee == 24

FeePairs == {p \in (0..MaxFee) \X (0..MaxFee) : p[1] >= p[2]}

\* The monitor holds the mutex in a due tick over a registry of one entry,
\* about to run the iteration of that entry.
DueTick(entry, estimate) ==
  /\ txs = <<entry>>
  /\ est = estimate
  /\ tickStart = txs
  /\ lock = "monitor"
  /\ block_frequency = 1
  /\ mpc = "loop"
  /\ mfail = "none"
  /\ block_count = 1
  /\ blk = {}
  /\ remaining = 1
  /\ cur = NoEntry
  /\ cpc = [c \in Callers |-> IF c = 1 THEN "ok" ELSE "idle"]
  /\ creq = [c \in Callers |-> NoReq]
  /\ chash = [c \in Callers |-> IF c = 1 THEN 1 ELSE 0]
  /\ cid = [c \in Callers |-> IF c = 1 THEN 1 ELSE 0]
  /\ nextHash = 2
  /\ nextNonce = 2
  /\ usedIds = {1}
  /\ popLog = <<>>
  /\ sendLog = <<>>
  /\ bumpLog = <<>>
  /\ included = {}
  /\ rejected = {}
  /\ preTick = <<>>
  /\ processed = 1
  /\ fresh = [c \in Callers |-> FALSE]
  /\ seenComplete = {}
  /\ mined = {}

\* One tracked entry with any previous fee pair, its tick due, any estimate.
FeeInit ==
  \E prev \in FeePairs, e \in FeePairs, r \in Requests :
    DueTick(Entry(1, [maxFee |-> prev[1], prioFee |-> prev[2],
                      payload |-> r.payload, nonce |-> 1, target |-> r.target], 1),
            e)

FeeNext ==
  \/ IterRebroadcast
  \/ RebroadcastOk

FeeSpec == FeeInit /\ [][FeeNext]_vars

\* The entry as the fee escalation left it.
Escalated == IF mpc = "sending" THEN cur ELSE txs[1]

\* C10: the escalated fee pair satisfies the minimum-bump rule against the
\* previous pair: each new fee is at least the previous one plus a tenth of
\* it (rounded down) plus one.
C10_MinimumBumpRule ==
  popLog # <<>> =>
    /\ Escalated.prioFee >=
         tickStart[1].prioFee + ((tickStart[1].prioFee * 10) \div 100) + 1
    /\ Escalated.maxFee >=
         tickStart[1].maxFee + ((tickStart[1].maxFee * 10) \div 100) + 1
    /\ Escalated.prioFee * 10 > tickStart[1].prioFee * 11
    /\ Escalated.maxFee * 10 > tickStart[1].maxFee * 11

\* Previous fees where rounding matters and the estimate is below them.
C10_Witness ==
  /\ mpc = "sending"
  /\ tickStart[1].maxFee = 19
  /\ tickStart[1].prioFee = 10
  /\ est = <<3, 1>>
  /\ cur.maxFee = 22
  /\ cur.prioFee = 12

\* bump of section 4.2 of the design, written out.
DesignBump(v) == v + ((v * 10) \div 100) + 1

\* C11: the escalated pair is the design's: the tip is the larger of the
\* estimated tip and the bumped previous tip, the max fee is that tip plus the
\* larger of the estimated base fee and the bumped previous base fee; so the
\* tip is at least the estimated tip and the max fee at least the estimated
\* max fee, whatever the other fields of the request are.
C11_EscalatedPairIsDesigns ==
  popLog # <<>> =>
    LET prevMax == tickStart[1].maxFee
        prevPrio == tickStart[1].prioFee
        bumpedPrio == DesignBump(prevPrio)
        bumpedBase == DesignBump(prevMax - prevPrio)
        newPrio == IF est[2] >= bumpedPrio THEN est[2] ELSE bumpedPrio
        newBase == IF est[1] - est[2] >= bumpedBase THEN est[1] - est[2]
                   ELSE bumpedBase
    IN /\ Escalated.prioFee = newPrio
       /\ Escalated.maxFee = newBase + newPrio
       /\ Escalated.prioFee >= est[2]
       /\ Escalated.maxFee >= est[1]

\* The estimate decides the base fee, the previous tip decides the tip.
C11_Witness ==
  /\ mpc = "sending"
  /\ tickStart[1].maxFee = 20
  /\ tickStart[1].prioFee = 20
  /\ tickStart[1].payload = 2
  /\ est = <<24, 4>>
  /\ cur.prioFee = 23
  /\ cur.maxFee = 43

\* ------------------------------------------ increase_by_minimum alone
MaxBumpInput == 1000

BumpInputs == 0..MaxBumpInput

\* An entry without base fee whose tip is any value, and a zero estimate: the
\* escalated tip is increase_by_minimum of the previous tip.
BumpInit ==
  \E v \in BumpInputs :
    DueTick(Entry(1, [maxFee |-> v, prioFee |-> v, payload |-> 1, nonce |-> 1,
                      target |-> None], 1),
            <<0, 0>>)

BumpNext ==
  \/ IterRebroadcast
  \/ RebroadcastOk

BumpSpec == BumpInit /\ [][BumpNext]_vars

\* C12: increase_by_minimum(v) is v plus the tenth of v rounded down plus
\* one: the increase i = result - v - 1 satisfies 10*i <= v < 10*i + 10; it
\* is 1101 for 1000 and 1 for 0, and always more than v.
C12_BumpValue ==
  popLog # <<>> =>
    LET v == tickStart[1].prioFee
        i == Escalated.prioFee - v - 1
    IN /\ 10 * i <= v
       /\ v < (10 * i) + 10
       /\ Escalated.prioFee > v
       /\ v = 1000 => Escalated.prioFee = 1101
       /\ v = 0 => Escalated.prioFee = 1
       /\ Escalated.maxFee - Escalated.prioFee = 1

C12_Witness ==
  /\ mpc = "sending"
  /\ tickStart[1].prioFee = 1000
  /\ cur.prioFee = 1101

\* ------------------------------------------------- the block counter
\* block_count is compared with block_frequency: u8, so it is a u8 itself.
U8Max == 255

\* Blocks received beyond the first overflow of the counter.
ExtraBlocks == 4

\* watcher.next() yields a block hash and the counter has room.
CountBlock ==
  /\ mpc = "next"
  /\ block_count < U8Max
  /\ processed < U8Max + ExtraBlocks
  /\ block_count' = block_count + 1
  /\ mpc' = "fetch"
  /\ preTick' = txs
  /\ UNCHANGED <<txs, lock, block_frequency, mfail, blk, est, remaining, cur,
                 callVars, netVars, tickHist,
                 included, rejected, processed, fresh, seenComplete, mined>>

\* watcher.next() yields a block hash when the counter is 255, in a build
\* without overflow checks: the addition wraps.
CountBlockWraps ==
  /\ mpc = "next"
  /\ block_count = U8Max
  /\ block_count' = 0
  /\ mpc' = "fetch"
  /\ preTick' = txs
  /\ UNCHANGED <<txs, lock, block_frequency, mfail, blk, est, remaining, cur,
                 callVars, netVars, tickHist,
                 included, rejected, processed, fresh, seenComplete, mined>>

\* The same in a build with overflow checks: the addition panics and the
\* task ends.
CountBlockPanics ==
  /\ mpc = "next"
  /\ block_count = U8Max
  /\ mpc' = "failed"
  /\ mfail' = "overflow"
  /\ UNCHANGED <<txs, lock, block_frequency, block_count, blk, est,
                 remaining, cur, callVars, netVars, tickHist, hist>>

\* The monitor alone, over an empty registry, for more than 255 blocks.
CounterNext ==
  \/ WatchBlocks
  \/ CountBlock
  \/ CountBlockWraps
  \/ CountBlockPanics
  \/ \E b \in Blocks : FetchOk(b)
  \/ \E e \in Estimates : EstimateOk(e)
  \/ AcquireLock
  \/ EndTick

CounterSpec == Init /\ [][CounterNext]_vars

\* C13: the counter never aborts the loop, and while a block's entries are
\* processed it equals the number of blocks received so far, so the tick is
\* due exactly when that number is a multiple of the cadence.
C13_CounterCountsBlocks ==
  /\ mfail # "overflow"
  /\ mpc = "loop" =>
       /\ block_count = processed
       /\ Due <=> (processed % block_frequency = 0)

\* The monitor is inside a tick's entry processing.
InTick == mpc \in {"loop", "sending"}

\* C14: in a tick that is not due no send_transaction is called, and when its
\* entry processing is over every entry of the start of the tick whose hash
\* is not in the block is in the registry with all its fields as they were.
C14_NotDueTickKeepsEntries ==
  (InTick /\ ~Due) =>
    /\ mpc # "sending"
    /\ sendLog = <<>>
    /\ bumpLog = <<>>
    /\ TickDone =>
         \A k \in DOMAIN tickStart :
           tickStart[k].hash \notin blk =>
             \E j \in DOMAIN txs : txs[j] = tickStart[k]

C14_Witness ==
  /\ TickDone
  /\ ~Due
  /\ Len(tickStart) = 2
  /\ tickStart[2].hash \in blk
  /\ tickStart[1].hash \notin blk
  /\ txs = <<tickStart[1]>>

SameRequest(e, f) ==
  /\ e.id = f.id
  /\ e.payload = f.payload
  /\ e.nonce = f.nonce
  /\ e.target = f.target

\* The two steps of a successful rebroadcast: the popped entry is bumped, and
\* the bumped entry is pushed back with the hash send_transaction returned.
C15_RebroadcastStep ==
  /\ (mpc = "loop" /\ mpc' = "sending") =>
       /\ SameRequest(cur', Last(txs))
       /\ cur'.hash = Last(txs).hash
  /\ (mpc = "sending" /\ mpc' = "loop" /\ Len(txs') > Len(txs)) =>
       /\ SameRequest(Last(txs'), cur)
       /\ Last(txs').maxFee = cur.maxFee
       /\ Last(txs').prioFee = cur.prioFee
       /\ Last(txs').hash = nextHash
       /\ Pop(txs') = txs

\* The entry an id identifies carries the request its submission sent.
C15_IdKeepsRequest ==
  \A c \in Callers :
    cpc[c] = "ok" =>
      \A k \in DOMAIN txs :
        txs[k].id = cid[c] =>
          /\ txs[k].payload = creq[c].payload
          /\ txs[k].nonce = creq[c].nonce
          /\ txs[k].target = creq[c].target

\* C15: a successful rebroadcast changes only the hash and the two fee
\* fields of the entry; id, payload, nonce and target stay, so an id
\* identifies the same request after any number of rebroadcasts.
C15_RebroadcastKeepsIdentity ==
  [][C15_RebroadcastStep]_vars /\ []C15_IdKeepsRequest

\* An entry rebroadcast twice.
C15_Witness ==
  /\ cpc[1] = "ok"
  /\ chash[1] = 1
  /\ \E k \in DOMAIN txs :
       /\ txs[k].id = cid[1]
       /\ txs[k].hash = 3
       /\ txs[k].target = 7

\* A step of a submission: its provider calls leave the mutex and the
\* registry alone whoever holds the mutex; its last step finds the mutex
\* free, pushes its entry and leaves the mutex free.
C16_SubmitStep ==
  \A c \in Callers :
    /\ (cpc[c] \in {"idle", "estimate", "fill", "send"} /\ cpc'[c] # cpc[c]) =>
         /\ lock' = lock
         /\ txs' = txs
    /\ (cpc[c] = "insert" /\ cpc'[c] = "ok") =>
         /\ lock = "free"
         /\ lock' = "free"
         /\ txs' = Append(txs, Entry(chash[c], creq[c], cid[c]))

\* No submission holds the mutex between two steps, and a submission that
\* waits for it has broadcast a transaction that is not in the registry.
C16_BroadcastBeforeInsert ==
  /\ lock \in {"free", "monitor"}
  /\ \A c \in Callers :
       cpc[c] = "insert" =>
         /\ chash[c] \in 1..(nextHash - 1)
         /\ creq[c].nonce # None
         /\ get_transaction_status(txs, cid[c]) = "Complete"

\* C16: a submission's estimate, fill and broadcast are over before it takes
\* the registry mutex, it holds the mutex for the push only, and its
\* transaction can be on the network while its entry is not in the registry.
C16_SubmitLocksForInsertOnly ==
  [][C16_SubmitStep]_vars /\ []C16_BroadcastBeforeInsert

\* A submission broadcast while a tick was rebroadcasting, now waiting for
\* the mutex the tick holds.
C16_Witness ==
  \E c \in Callers :
    /\ cpc[c] = "insert"
    /\ lock = "monitor"
    /\ \E k \in DOMAIN txs :
         /\ txs[k].id \in Range(sendLog)
         /\ txs[k].hash < chash[c]
         /\ txs[k].hash > 1

\* Entries the current tick has removed so far.
RemovedInTick == Range(popLog) \cap (included \cup rejected)

\* C17: while a tick processes its entries the monitor holds the mutex: no
\* submission has inserted since the tick locked the registry, the entries in
\* the registry and the one being rebroadcast are entries of the start of the
\* tick, none of them is lost, and status has not answered Complete for any
\* of them.
C17_TickHoldsMutex ==
  InTick =>
    /\ lock = "monitor"
    /\ \A c \in Callers : ~fresh[c]
    /\ Ids(txs) \subseteq Ids(tickStart)
    /\ Range(popLog) \subseteq Ids(tickStart)
    /\ mpc = "sending" => cur.id \in Ids(tickStart) \ Ids(txs)
    /\ Len(txs) + Cardinality(RemovedInTick) + (IF mpc = "sending" THEN 1 ELSE 0)
         = Len(tickStart)
    /\ seenComplete \cap (Ids(txs) \cup {cur.id}) = {}

\* A submission waits for the mutex while the tick awaits a rebroadcast.
C17_Witness ==
  /\ mpc = "sending"
  /\ cur.id # 0
  /\ \E c \in Callers : cpc[c] = "insert"
  /\ Len(tickStart) = 1

FeesPresentAndOrdered(e) ==
  /\ e.maxFee # None
  /\ e.prioFee # None
  /\ e.prioFee >= 0
  /\ e.maxFee >= e.prioFee

\* C18: every entry of the registry, and the one being rebroadcast, has both
\* fee fields, the max fee not below the tip; and when an entry is about to
\* be bumped neither subtraction of bump_transaction goes below zero.
C18_FeesOrderedNoUnderflow ==
  /\ \A k \in DOMAIN txs : FeesPresentAndOrdered(txs[k])
  /\ mpc = "sending" => FeesPresentAndOrdered(cur)
  /\ (mpc = "loop" /\ remaining > 0 /\ Due) =>
       /\ Len(txs) > 0
       /\ est[1] - est[2] >= 0
       /\ Last(txs).maxFee - Last(txs).prioFee >= 0

\* An entry already rebroadcast is about to be bumped again.
C18_Witness ==
  /\ mpc = "loop"
  /\ remaining > 0
  /\ Due
  /\ \E c \in Callers :
       /\ cpc[c] = "ok"
       /\ Last(txs).id = cid[c]
       /\ Last(txs).hash # chash[c]
       /\ Last(txs).id \in Range(bumpLog)

\* The monitor task has ended: the block stream is over or a step failed.
MonitorEnded == mpc \in {"stopped", "failed"}

\* Once the monitor has ended the mutex is free, so a waiting insert and a
\* status call can run.
C19_MutexFreeAfterEnd ==
  MonitorEnded =>
    /\ lock = "free"
    /\ \A c \in Callers : cpc[c] = "insert" => ENABLED SubmitInsert(c)
    /\ \A id \in IdSpace : ENABLED GetStatus(id)

\* Once the monitor has ended it stays ended, and the registry only grows at
\* its end: no entry is removed, changed or rebroadcast.
C19_StepAfterEnd ==
  MonitorEnded =>
    /\ mpc' = mpc
    /\ lock' = "free"
    /\ IsPrefix(txs, txs')
    /\ (nextHash' # nextHash =>
          \E c \in Callers : cpc[c] = "send" /\ cpc'[c] = "insert")

\* C19: whenever the monitor ends, before or in the middle of a tick, the
\* registry mutex is free, submissions and status calls made afterwards
\* complete, and entries inserted afterwards stay in the registry untouched.
C19_MutexReleasedOnEnd ==
  []C19_MutexFreeAfterEnd /\ [][C19_StepAfterEnd]_vars

\* The monitor ended in the middle of a tick and a submission has inserted
\* its entry since.
C19_Witness ==
  /\ mfail = "send"
  /\ Len(tickStart) = 1
  /\ Len(txs) = 1
  /\ \E c \in Callers : cpc[c] = "ok" /\ fresh[c] /\ txs[1].id = cid[c]

\* ------------------------------------- a watch loop that never stops
\* The block stream does not end and no provider call fails. The build has
\* no overflow checks (CountBlockWraps), because with them the task panics
\* at block 256. Hashes, nonces and ids are opaque, so the values no live
\* object refers to are handed out again; that keeps the state finite while
\* callers submit forever.

\* Fee above which the network mines a transaction in the next block.
FeeCap == 20

\* The request every caller submits: both fees present.
LiveRequest == [maxFee |-> 20, prioFee |-> 10, payload |-> 2, target |-> 7]

\* The estimate the provider answers with on every tick.
LiveEstimate == <<3, 1>>

\* The entry the monitor holds across the rebroadcast await, if any.
Held == IF cur = NoEntry THEN {} ELSE {cur}

\* Callers whose broadcast transaction waits for its insertion.
Inserting == {c \in Callers : cpc[c] = "insert"}

LiveEntries == Range(txs) \cup Range(preTick) \cup Held

LiveIds == {e.id : e \in LiveEntries} \cup {cid[c] : c \in Inserting}

LiveHashes == {e.hash : e \in LiveEntries} \cup {chash[c] : c \in Inserting}

LiveNonces ==
  {e.nonce : e \in LiveEntries}
    \cup {creq[c].nonce : c \in {d \in Callers : cpc[d] \in {"send", "insert"}}}

\* Position of x among the values of S, counted from 1.
Rank(x, S) == Cardinality({y \in S : y <= x})

RenameHash(h) == IF h \in LiveHashes THEN Rank(h, LiveHashes) ELSE 0

RenameNonce(n) == IF n \in LiveNonces THEN Rank(n, LiveNonces) ELSE None

RenameEntry(e) ==
  [e EXCEPT !.hash = RenameHash(e.hash), !.nonce = RenameNonce(e.nonce)]

RenameAll(registry) == [k \in DOMAIN registry |-> RenameEntry(registry[k])]

\* Every live hash and nonce has the least value its order allows, and
\* nothing is kept about entries that are gone.
Compacted ==
  /\ txs = RenameAll(txs)
  /\ preTick = RenameAll(preTick)
  /\ cur = (IF cur = NoEntry THEN NoEntry ELSE RenameEntry(cur))
  /\ blk \subseteq LiveHashes
  /\ \A c \in Callers :
       /\ chash[c] = RenameHash(chash[c])
       /\ creq[c].nonce = RenameNonce(creq[c].nonce)
  /\ nextHash = Cardinality(LiveHashes) + 1
  /\ nextNonce = Cardinality(LiveNonces) + 1
  /\ usedIds = LiveIds
  /\ mined \subseteq LiveIds
  /\ included = {}
  /\ rejected = {}
  /\ processed = 0
  /\ tickStart = <<>>
  /\ popLog = <<>>
  /\ sendLog = <<>>
  /\ bumpLog = <<>>

\* Rename the live hashes and nonces to the least values, hand the dead
\* ones out again and forget the history of the entries that are gone.
Compact ==
  /\ ~Compacted
  /\ txs' = RenameAll(txs)
  /\ preTick' = RenameAll(preTick)
  /\ cur' = (IF cur = NoEntry THEN NoEntry ELSE RenameEntry(cur))
  /\ blk' = {RenameHash(h) : h \in blk \cap LiveHashes}
  /\ chash' = [c \in Callers |-> RenameHash(chash[c])]
  /\ creq' = [c \in Callers |->
                [creq[c] EXCEPT !.nonce = RenameNonce(creq[c].nonce)]]
  /\ nextHash' = Cardinality(LiveHashes) + 1
  /\ nextNonce' = Cardinality(LiveNonces) + 1
  /\ usedIds' = LiveIds
  /\ mined' = mined \cap LiveIds
  /\ included' = {}
  /\ rejected' = {}
  /\ processed' = 0
  /\ tickStart' = <<>>
  /\ popLog' = <<>>
  /\ sendLog' = <<>>
  /\ bumpLog' = <<>>
  /\ UNCHANGED <<lock, block_frequency, mpc, mfail, block_count, est,
                 remaining, cpc, cid, fresh, seenComplete>>

\* A call has returned and its entry is gone; the task is free for the
\* next HTTP request.
SubmitAgain(c) ==
  /\ cpc[c] \in {"ok", "err"}
  /\ cid[c] \notin LiveIds
  /\ cpc' = [cpc EXCEPT ![c] = "idle"]
  /\ creq' = [creq EXCEPT ![c] = NoReq]
  /\ chash' = [chash EXCEPT ![c] = 0]
  /\ cid' = [cid EXCEPT ![c] = 0]
  /\ fresh' = [fresh EXCEPT ![c] = FALSE]
  /\ UNCHANGED <<txs, lock, monVars, netVars, tickHist,
                 included, rejected, preTick, processed, seenComplete, mined>>

\* Entries of the registry as it was when the block was announced whose
\* transaction is not mined yet: the ones the block can contain.
Minable == {e \in Range(preTick) : e.id \notin mined}

\* get_block_with_txs answered with a block of the chain: it holds current
\* transactions of unmined entries, and every one whose fee is above FeeCap.
LiveFetchOk(b) ==
  /\ mpc = "fetch"
  /\ b \subseteq Minable
  /\ Cardinality(b) <= MaxBlockTxs
  /\ \A e \in Minable : e.maxFee > FeeCap => e \in b
  /\ blk' = {e.hash : e \in b}
  /\ mined' = mined \cup {e.id : e \in b}
  /\ mpc' = "estimate"
  /\ UNCHANGED <<txs, lock, block_frequency, mfail, block_count, est,
                 remaining, cur, callVars, netVars, tickHist,
                 included, rejected, preTick, processed, fresh, seenComplete>>

\* No call is between its entry and its return.
NoCallRunning == \A c \in Callers : cpc[c] \in {"idle", "ok", "err"}

\* The steps of submissions, taken one call after the other while the
\* monitor waits for the next block; a caller may stop submitting at any
\* time.
LiveSubmit ==
  /\ Compacted
  /\ mpc = "next"
  /\ \/ \E c \in Callers : NoCallRunning /\ Submit(c, LiveRequest)
     \/ \E c \in Callers : SubmitFillOk(c)
     \/ \E c \in Callers, id \in IdSpace : SubmitSendOk(c, id)
     \/ \E c \in Callers : SubmitInsert(c)
     \/ \E c \in Callers : NoCallRunning /\ SubmitAgain(c)

\* The steps of the monitor task. The network accepts the replacement of
\* an unmined transaction and rejects the one of a mined nonce.
LiveMonitor ==
  /\ Compacted
  /\ \/ WatchBlocks
     \/ CountBlock
     \/ CountBlockWraps
     \/ \E b \in SUBSET Minable : LiveFetchOk(b)
     \/ EstimateOk(LiveEstimate)
     \/ AcquireLock
     \/ IterIncluded
     \/ IterNotDue
     \/ IterRebroadcast
     \/ (cur.id \notin mined /\ RebroadcastOk)
     \/ (cur.id \in mined /\ RebroadcastRejected)
     \/ EndTick

LiveInit == Init /\ block_frequency = 2

LiveNext == Compact \/ LiveSubmit \/ LiveMonitor

\* The runtime polls the monitor task whenever it can take a step, and
\* every provider call it awaits is answered.
LiveSpec ==
  LiveInit /\ [][LiveNext]_vars /\ WF_vars(Compact) /\ WF_vars(LiveMonitor)

\* The entry with this id is in the registry and its transaction is mined.
MinedInRegistry(id) == id \in mined /\ id \in Ids(txs)

\* The entry with this id is neither in the registry nor held by the tick.
Removed(id) == id \notin Ids(txs) /\ cur.id # id

\* C20: when the watch loop keeps receiving blocks without a fatal failure
\* and every rebroadcast of a mined nonce is answered with a rejection,
\* every entry whose transaction has been mined is eventually removed from
\* the registry, whatever the size of the registry.
C20_MinedEntryEventuallyRemoved ==
  \A id \in IdSpace : MinedInRegistry(id) ~> Removed(id)

====
